---- MODULE Spec2Model ----
(***************************************************************************)
(* Model of pkg/keyvisual/decorator/tidb_requests.go: the refresh cycle    *)
(* tidbLabelStrategy.updateMap, its two fetch strategies (/db-table in     *)
(* batches, /schema full scan) and the two label builders that store       *)
(* tableDetail entries in TableMap.                                        *)
(*                                                                         *)
(* One cycle is split at its network calls and at its TableMap.Store       *)
(* calls: every action is the code between two such points.                *)
(***************************************************************************)
EXTENDS Integers, Sequences, FiniteSets, TLC

VARIABLES
  SchemaVersion,                \* s.SchemaVersion
  dbTableInfosEndpointNotFound, \* s.dbTableInfosEndpointNotFound
  TableMap,                     \* s.TableMap (sync.Map): key -> tableDetail
  getTableIDs,                  \* TRUE iff s.getTableIDs != nil
  pc,                           \* position of updateMap
  schemaVersion,                \* local: the parsed version
  tableIDBatches,               \* local: the batches of formatted ids
  batchIdx,                     \* local: index of the range loop at line 85
  updateSuccess,                \* local: updateSuccess (lines 84 and 113)
  dbInfos,                      \* local: the decoded /schema listing
  dbIdx,                        \* local: index of the range loop at line 114
  stores,                       \* the TableMap.Store calls still to be made
  cyc,                          \* history of the current (or last) cycle
  ctxDone,                      \* TRUE iff the ctx given to updateMap is cancelled
  prev,                         \* history: how the cycle before this one ended
  built                         \* a description and what the two builders make of it

vars == <<SchemaVersion, dbTableInfosEndpointNotFound, TableMap, getTableIDs,
          pc, schemaVersion, tableIDBatches, batchIdx, updateSuccess,
          dbInfos, dbIdx, stores, cyc, ctxDone, prev, built>>

(***************************************************************************)
(* Program constants and bounds.                                           *)
(***************************************************************************)
tableInfosBatchSize == 512

StateNone == 0

\* largest schema version the metadata source publishes
MaxVersion == 2

\* largest number of indexes of a table description given to the builders
MaxIndexes == 2

\* largest number of partitions of a table description given to the builders
MaxPartitions == 2

\* largest number of batches one cycle's identifier set is split into
MaxBatches == 2

\* size of the last, partial batch of the identifier sets tried
Remainder == 5

(***************************************************************************)
(* Text: a string is a sequence of one-character strings.                  *)
(***************************************************************************)
Digits == <<"0", "1", "2", "3", "4", "5", "6", "7", "8", "9">>

IsDigit(c) == \E i \in 1..10 : Digits[i] = c

DigitVal(c) == (CHOOSE i \in 1..10 : Digits[i] = c) - 1

\* strings.Contains(s, sub)
Contains(s, sub) ==
  \E i \in 1..(Len(s) - Len(sub) + 1) : SubSeq(s, i, i + Len(sub) - 1) = sub

\* variant: parsing stops at the first character that is not a digit
RECURSIVE ParseDigitsLenient(_, _, _)
ParseDigitsLenient(s, i, acc) ==
  IF i > Len(s) \/ ~IsDigit(s[i]) THEN [ok |-> TRUE, val |-> acc]
  ELSE ParseDigitsLenient(s, i + 1, acc * 10 + DigitVal(s[i]))

\* the digits of strconv.ParseInt, from position i on
RECURSIVE ParseDigits(_, _, _)
ParseDigits(s, i, acc) ==
  IF i > Len(s) THEN [ok |-> TRUE, val |-> acc]
  ELSE IF ~IsDigit(s[i]) THEN [ok |-> FALSE, val |-> 0]
  ELSE ParseDigits(s, i + 1, acc * 10 + DigitVal(s[i]))

\* strconv.ParseInt(s, 10, 64) on the short texts of the model (no overflow)
ParseInt(s) ==
  IF Len(s) = 0 THEN [ok |-> FALSE, val |-> 0]
  ELSE IF s[1] \in {"+", "-"}
    THEN IF Len(s) = 1 THEN [ok |-> FALSE, val |-> 0]
         ELSE LET r == ParseDigits(s, 2, 0) IN
              IF s[1] = "-" THEN [ok |-> r.ok, val |-> 0 - r.val] ELSE r
    ELSE ParseDigits(s, 1, 0)

(***************************************************************************)
(* The version check, lines 36-59.                                         *)
(***************************************************************************)
\* what EtcdClient.Get can answer: an error, or a response with 0, 1 or 2
\* key-values whose value is any short text
MalformedTexts == {<<"x">>, <<"1", "x">>, <<"-">>, <<>>}

VersionTexts ==
  {<<Digits[v + 1]>> : v \in 0..MaxVersion} \cup
  {<<"-", "1">>, <<"+", "1">>} \cup MalformedTexts

EtcdResponses ==
  {[err |-> TRUE, Kvs |-> <<>>]} \cup
  {[err |-> FALSE, Kvs |-> <<>>]} \cup
  {[err |-> FALSE, Kvs |-> <<t>>] : t \in VersionTexts} \cup
  {[err |-> FALSE, Kvs |-> <<<<"1">>, <<"2">>>>]}

\* lines 39 and 47-48: the cycle has a version to compare
VersionFetched(resp) ==
  /\ ~resp.err
  /\ Len(resp.Kvs) = 1
  /\ ParseInt(resp.Kvs[1]).ok

\* variant: every fetched version counts as changed
VersionChangedAlways(fetched, stored) == TRUE

\* line 56, negated: the refresh goes on
VersionChanged(fetched, stored) == fetched # stored

\* variant: the capability flag is not consulted
BatchEligibleIgnoringFlag(supplier, notFound) == supplier

\* line 63: the batched strategy is tried
BatchEligible(supplier, notFound) == supplier /\ ~notFound

(***************************************************************************)
(* The identifier batches, lines 69-83.                                    *)
(***************************************************************************)
\* variant: a batch is closed one identifier late
BatchLoopBodyOffByOne(st, id) ==
  LET batch == Append(st.batch, id)
      n == st.n + 1
  IN IF n = tableInfosBatchSize + 1
       THEN [tableIDBatches |-> Append(st.tableIDBatches, batch),
             batch |-> <<>>, n |-> 0]
       ELSE [tableIDBatches |-> st.tableIDBatches, batch |-> batch, n |-> n]

\* the body of the range loop, lines 73-79
BatchLoopBody(st, id) ==
  LET batch == Append(st.batch, id)
      n == st.n + 1
  IN IF n = tableInfosBatchSize
       THEN [tableIDBatches |-> Append(st.tableIDBatches, batch),
             batch |-> <<>>, n |-> 0]
       ELSE [tableIDBatches |-> st.tableIDBatches, batch |-> batch, n |-> n]

\* the range loop over ids[lo..hi], run from loop state st.  The loop is
\* unrolled as two halves, the second started from the state the first
\* leaves (the test on left.n, which always holds, makes the first half
\* be evaluated before the second is entered).
RECURSIVE BatchLoop(_, _, _, _)
BatchLoop(st, ids, lo, hi) ==
  IF lo > hi THEN st
  ELSE IF lo = hi THEN BatchLoopBody(st, ids[lo])
  ELSE LET mid == (lo + hi) \div 2
           left == BatchLoop(st, ids, lo, mid)
       IN IF left.n >= 0
            THEN BatchLoop(left, ids, mid + 1, hi)
            ELSE left

\* lines 69-83: ids is the order in which `range tableIDs` yields the ids
MakeBatches(ids) ==
  LET st == BatchLoop([tableIDBatches |-> <<>>, batch |-> <<>>, n |-> 0],
                      ids, 1, Len(ids))
  IN IF Len(st.batch) > 0
       THEN Append(st.tableIDBatches, st.batch)
       ELSE st.tableIDBatches

\* the identifier sets s.getTableIDs() returns: {1..n}, for these n
IdCounts ==
  {0, Remainder, tableInfosBatchSize,
   (MaxBatches - 1) * tableInfosBatchSize + Remainder}

\* Go ranges over a map in an unspecified order: two of the orders
IterOrders == {"asc", "desc"}

RangeOver(n, order) ==
  [i \in 1..n |-> IF order = "asc" THEN i ELSE n + 1 - i]

\* lines 64-83 for each identifier set and order, computed once
BatchesOf ==
  [in \in (IdCounts \ {0}) \X IterOrders |-> MakeBatches(RangeOver(in[1], in[2]))]

(***************************************************************************)
(* s.request, lines 194-203.                                               *)
(***************************************************************************)
Text404 == <<"4", "0", "4">>

\* texts an error can carry: a status code, an end of file, a text that
\* quotes a port or an identifier such as 4040
ErrTexts == {Text404, <<"e", "o", "f">>, <<"4", "0", "4", "0">>}

\* what tidbClient.SendGetRequest can return for a path whose well-formed
\* answers are `values`: an error, bytes that do not decode, or bytes that
\* decode to a value.  An answer with HTTP status 404 is an error whose
\* text holds the status code.
SendResults(values) ==
  {[kind |-> k, msg |-> m, valid |-> FALSE, v |-> <<>>] :
     k \in {"Transport", "Timeout"}, m \in ErrTexts} \cup
  {[kind |-> "NotFound", msg |-> m, valid |-> FALSE, v |-> <<>>] :
     m \in {t \in ErrTexts : Contains(t, Text404)}} \cup
  {[kind |-> "data", msg |-> m, valid |-> FALSE, v |-> <<>>] : m \in ErrTexts} \cup
  {[kind |-> "data", msg |-> <<>>, valid |-> TRUE, v |-> x] : x \in values}

\* ErrInvalidData.Wrap(err, "%s schema API unmarshal failed", ...)
WrapInvalidData(cause) == <<"u", "n", "m", "a", "r", "s", "h", "a", "l", ":">> \o cause

\* lines 194-203
request(res) ==
  IF res.kind # "data"
    THEN [err |-> res.kind, msg |-> res.msg, v |-> <<>>]
  ELSE IF ~res.valid
    THEN [err |-> "Decode", msg |-> WrapInvalidData(res.msg), v |-> <<>>]
  ELSE [err |-> "nil", msg |-> <<>>, v |-> res.v]

\* line 88: strings.Contains(err.Error(), "404")
IsNotFound(msg) == Contains(msg, Text404)

\* lines 87-95: the flag after a batched request that failed with text msg
FlagAfterBatchError(flag, msg) == IF IsNotFound(msg) THEN TRUE ELSE flag

(***************************************************************************)
(* The label builders, lines 134-192.  Each yields, in order, the          *)
(* TableMap.Store calls it makes.                                          *)
(***************************************************************************)
\* lines 139-142 and 169-172: indices[index.ID] = index.Name.O, in order
RECURSIVE IndexLoop(_, _, _)
IndexLoop(indices, Indices, i) ==
  IF i > Len(Indices) THEN indices
  ELSE IndexLoop([k \in DOMAIN indices \cup {Indices[i].ID} |->
                    IF k = Indices[i].ID THEN Indices[i].Name ELSE indices[k]],
                 Indices, i + 1)

EmptyMap == [k \in {} |-> ""]

\* table.GetPartitionInfo(): the partition definitions, none when nil
PartitionDefs(table) ==
  IF Len(table.Partition) = 0 THEN <<>> ELSE table.Partition[1].Definitions

\* lines 139-160: the stores made for one table of database dbname
TableStores(dbname, table) ==
  LET indices == IndexLoop(EmptyMap, table.Indices, 1)
      defs == PartitionDefs(table)
  IN <<[key |-> table.ID,
        detail |-> [Name |-> table.Name, DB |-> dbname, ID |-> table.ID,
                    Indices |-> indices]]>> \o
     [i \in 1..Len(defs) |->
        [key |-> defs[i].ID,
         detail |-> [Name |-> table.Name \o "/" \o defs[i].Name, DB |-> dbname,
                     ID |-> defs[i].ID, Indices |-> indices]]]

\* variant: a partition's entry is named by the partition alone
DBTableStoresPlainName(dbTable) ==
  LET indices == IndexLoop(EmptyMap, dbTable.TableInfo.Indices, 1)
      defs == PartitionDefs(dbTable.TableInfo)
  IN <<[key |-> dbTable.TableInfo.ID,
        detail |-> [Name |-> dbTable.TableInfo.Name, DB |-> dbTable.DBInfo.Name,
                    ID |-> dbTable.TableInfo.ID, Indices |-> indices]]>> \o
     [i \in 1..Len(defs) |->
        [key |-> defs[i].ID,
         detail |-> [Name |-> defs[i].Name, DB |-> dbTable.DBInfo.Name,
                     ID |-> defs[i].ID, Indices |-> indices]]]

\* lines 169-190: the stores made for one entry of the /db-table answer
DBTableStores(dbTable) ==
  LET indices == IndexLoop(EmptyMap, dbTable.TableInfo.Indices, 1)
      defs == PartitionDefs(dbTable.TableInfo)
  IN <<[key |-> dbTable.TableInfo.ID,
        detail |-> [Name |-> dbTable.TableInfo.Name, DB |-> dbTable.DBInfo.Name,
                    ID |-> dbTable.TableInfo.ID, Indices |-> indices]]>> \o
     [i \in 1..Len(defs) |->
        [key |-> defs[i].ID,
         detail |-> [Name |-> dbTable.TableInfo.Name \o "/" \o defs[i].Name,
                     DB |-> dbTable.DBInfo.Name,
                     ID |-> defs[i].ID, Indices |-> indices]]]

\* lines 134-162
RECURSIVE updateTableMap(_, _)
updateTableMap(dbname, tableInfos) ==
  IF Len(tableInfos) = 0 THEN <<>>
  ELSE TableStores(dbname, Head(tableInfos)) \o updateTableMap(dbname, Tail(tableInfos))

\* variant: the stores of a batch are held back
updateTableMapByDBTableInfosBuffered(dbTableInfos) == <<>>

\* lines 164-192; dbTableInfos lists the map in the order Go ranges over it
RECURSIVE updateTableMapByDBTableInfos(_)
updateTableMapByDBTableInfos(dbTableInfos) ==
  IF Len(dbTableInfos) = 0 THEN <<>>
  ELSE DBTableStores(Head(dbTableInfos)) \o
       updateTableMapByDBTableInfos(Tail(dbTableInfos))

\* variant: the store replaces the whole map
StoreReplacingAll(map, key, detail) == [k \in {key} |-> detail]

\* variant: the store overwrites the fields of the entry already under the
\* key one by one, and stops before the index names
StoreInPlace(map, key, detail) ==
  [k \in DOMAIN map \cup {key} |->
     IF k # key THEN map[k]
     ELSE IF k \in DOMAIN map
       THEN [map[k] EXCEPT !.Name = detail.Name, !.DB = detail.DB]
     ELSE detail]

\* s.TableMap.Store(key, detail)
Store(map, key, detail) ==
  [k \in DOMAIN map \cup {key} |-> IF k = key THEN detail ELSE map[k]]

(***************************************************************************)
(* The schema the metadata source can describe.                            *)
(***************************************************************************)
TOrders ==
  [ID |-> 1, Name |-> "orders",
   Indices |-> <<[ID |-> 1, Name |-> "idx_a"]>>,
   Partition |-> <<[Definitions |-> <<[ID |-> 2, Name |-> "p0"]>>]>>]

\* the same table after a rename that dropped its index and partitions
TOrdersRenamed ==
  [ID |-> 1, Name |-> "orders_v2", Indices |-> <<>>, Partition |-> <<>>]

\* a table whose index list names index 1 twice
TUsers ==
  [ID |-> 3, Name |-> "users",
   Indices |-> <<[ID |-> 1, Name |-> "idx_old"], [ID |-> 1, Name |-> "idx_u"]>>,
   Partition |-> <<>>]

DBNames == {"db1", "db2"}

\* a lifecycle state other than StateNone
StateOther == StateNone + 1

\* answers of "/schema/<db>"
TableLists == {<<>>, <<TOrders>>, <<TOrdersRenamed, TUsers>>}

\* answers of "/schema"
DBLists ==
  {<<>>,
   <<[Name |-> "db1", State |-> StateOther]>>,
   <<[Name |-> "db1", State |-> StateOther], [Name |-> "db2", State |-> StateOther]>>,
   <<[Name |-> "db1", State |-> StateNone], [Name |-> "db2", State |-> StateOther]>>,
   <<[Name |-> "db1", State |-> StateOther], [Name |-> "db2", State |-> StateNone]>>}

\* answers of "/db-table?table_ids=..."
DBTableLists ==
  {<<>>,
   <<[DBInfo |-> [Name |-> "db1"], TableInfo |-> TOrders]>>,
   <<[DBInfo |-> [Name |-> "db2"], TableInfo |-> TUsers],
     [DBInfo |-> [Name |-> "db1"], TableInfo |-> TOrdersRenamed]>>}

(***************************************************************************)
(* Decisions of updateMap.                                                 *)
(***************************************************************************)
\* variant: the batch loop never commits
VersionAfterBatchesNever(success, fetched, stored) == stored

\* variant: the version is committed whatever the batch loop's outcome
VersionAfterBatchesAlways(success, fetched, stored) == fetched

\* lines 98-101: s.SchemaVersion after the batch loop
VersionAfterBatches(success, fetched, stored) ==
  IF success THEN fetched ELSE stored

\* variant: the version is committed whatever the database loop's outcome
VersionAfterScanAlways(success, fetched, stored) == fetched

\* lines 128-131: s.SchemaVersion after the database loop
VersionAfterScan(success, fetched, stored) ==
  IF success THEN fetched ELSE stored

\* variant: the loop does not skip a database in StateNone
NextDBNoSkip(dbs, i) == IF i + 1 > Len(dbs) THEN Len(dbs) + 1 ELSE i + 1

\* variant: a failed listing is taken for an empty one, and committed
VersionAfterListingErrorCommit(fetched, stored) == fetched

\* lines 105-110: s.SchemaVersion after the "/schema" request failed
VersionAfterListingError(fetched, stored) == stored

\* lines 114-117: the first database after position i the loop does not skip
RECURSIVE NextDB(_, _)
NextDB(dbs, i) ==
  IF i + 1 > Len(dbs) THEN Len(dbs) + 1
  ELSE IF dbs[i + 1].State = StateNone THEN NextDB(dbs, i + 1)
  ELSE i + 1

\* variant: the loop asks the failed database again
NextDBAfterErrorRetry(dbs, i) == i

\* variant: the loop is left at the first failed database
NextDBAfterErrorBreak(dbs, i) == Len(dbs) + 1

\* lines 120-124: where the loop goes on after the request of database i failed
NextDBAfterError(dbs, i) == NextDB(dbs, i)

(***************************************************************************)
(* State.                                                                  *)
(***************************************************************************)
\* the table ids and partition ids that appear in a list of descriptions
IdsOf(tables) ==
  UNION {{tables[i].ID} \cup
         {PartitionDefs(tables[i])[j].ID : j \in 1..Len(PartitionDefs(tables[i]))} :
         i \in 1..Len(tables)}

\* history of one cycle, for the properties: what the version check gave,
\* the state the cycle started from, and each request with its outcome
NewCycle ==
  [ver |-> "none", resp |-> [err |-> FALSE, Kvs |-> <<>>], fetched |-> 0,
   recv |-> {}, sv0 |-> SchemaVersion,
   flag0 |-> dbTableInfosEndpointNotFound,
   ids |-> 0 - 1, nBatches |-> 0, batchReqs |-> 0, batchErr |-> "nil",
   batch404 |-> FALSE, schema |-> "none", dbs |-> <<>>, dbReq |-> <<>>,
   wrote |-> FALSE, scanWrote |-> FALSE, reqAfterCancel |-> FALSE,
   lastBatch |-> <<>>]

\* no cycle has ended yet, or the last one did not end on a failed request
NoPrev == [failed |-> FALSE, fetched |-> 0]

\* the builders have been given nothing
NotBuilt == [db |-> "", table |-> <<>>, scan |-> <<>>, batch |-> <<>>]

Init ==
  /\ SchemaVersion = 0 - 1
  /\ dbTableInfosEndpointNotFound = FALSE
  /\ TableMap = [k \in {} |-> 0]
  /\ getTableIDs \in BOOLEAN
  /\ pc = "Idle"
  /\ schemaVersion = 0
  /\ tableIDBatches = <<>>
  /\ batchIdx = 0
  /\ updateSuccess = TRUE
  /\ dbInfos = <<>>
  /\ dbIdx = 0
  /\ stores = <<>>
  /\ cyc = NewCycle
  /\ ctxDone = FALSE
  /\ prev = NoPrev
  /\ built = NotBuilt

\* updateMap returns with s.SchemaVersion = sv; its locals go out of scope
Return(sv) ==
  /\ SchemaVersion' = sv
  /\ pc' = "Done"
  /\ schemaVersion' = 0
  /\ tableIDBatches' = <<>>
  /\ batchIdx' = 0
  /\ updateSuccess' = TRUE
  /\ dbInfos' = <<>>
  /\ dbIdx' = 0
  /\ stores' = <<>>

(***************************************************************************)
(* Lines 34-84: the version check, the choice of strategy, the batches.    *)
(***************************************************************************)
VersionCheck ==
  /\ pc = "Idle"
  \* line 37: Get fails when ectx, a child of ctx, is cancelled
  /\ \E resp \in {r \in EtcdResponses : ctxDone => r.err} :
       IF ~VersionFetched(resp)
         THEN /\ Return(SchemaVersion)
              /\ cyc' = [NewCycle EXCEPT !.ver = "failed", !.resp = resp]
       ELSE LET v == ParseInt(resp.Kvs[1]).val IN
         IF ~VersionChanged(v, SchemaVersion)
           THEN /\ Return(SchemaVersion)
                /\ cyc' = [NewCycle EXCEPT !.ver = "unchanged", !.resp = resp,
                                            !.fetched = v]
         ELSE IF BatchEligible(getTableIDs, dbTableInfosEndpointNotFound)
           THEN \E n \in IdCounts :
                  IF n = 0
                    THEN /\ Return(SchemaVersion)
                         /\ cyc' = [NewCycle EXCEPT !.ver = "changed", !.resp = resp,
                                       !.fetched = v, !.ids = 0]
                    ELSE \E order \in IterOrders :
                         LET batches == BatchesOf[<<n, order>>] IN
                           /\ pc' = "Batch"
                           /\ schemaVersion' = v
                           /\ tableIDBatches' = batches
                           /\ batchIdx' = 1
                           /\ updateSuccess' = TRUE
                           /\ cyc' = [NewCycle EXCEPT !.ver = "changed", !.resp = resp,
                                        !.fetched = v, !.ids = n,
                                        !.nBatches = Len(batches)]
                           /\ UNCHANGED <<SchemaVersion, dbInfos, dbIdx, stores>>
           ELSE /\ pc' = "Schema"
                /\ schemaVersion' = v
                /\ cyc' = [NewCycle EXCEPT !.ver = "changed", !.resp = resp,
                                            !.fetched = v]
                /\ UNCHANGED <<SchemaVersion, tableIDBatches, batchIdx,
                               updateSuccess, dbInfos, dbIdx, stores>>
  /\ UNCHANGED <<dbTableInfosEndpointNotFound, TableMap, getTableIDs, ctxDone, prev, built>>

(***************************************************************************)
(* Lines 85-103: the batch loop.                                           *)
(***************************************************************************)
\* the loop goes to its next batch, or ends with every batch applied
AfterBatch ==
  IF batchIdx = Len(tableIDBatches)
    THEN Return(VersionAfterBatches(updateSuccess, schemaVersion, SchemaVersion))
    ELSE /\ pc' = "Batch"
         /\ batchIdx' = batchIdx + 1
         /\ stores' = <<>>
         /\ UNCHANGED <<SchemaVersion, schemaVersion, tableIDBatches,
                        updateSuccess, dbInfos, dbIdx>>

BatchRequest ==
  /\ pc = "Batch"
  /\ \E res \in SendResults(DBTableLists) :
       LET r == request(res) IN
       IF r.err # "nil"
         THEN \* lines 88-94 and 98-102: break, fall back to /schema
              /\ dbTableInfosEndpointNotFound' =
                   FlagAfterBatchError(dbTableInfosEndpointNotFound, r.msg)
              /\ SchemaVersion' =
                   VersionAfterBatches(FALSE, schemaVersion, SchemaVersion)
              /\ updateSuccess' = FALSE
              /\ pc' = "Schema"
              /\ tableIDBatches' = <<>>
              /\ batchIdx' = 0
              /\ cyc' = [cyc EXCEPT !.reqAfterCancel = @ \/ ctxDone,
                                    !.batchReqs = @ + 1, !.batchErr = r.err,
                                    !.batch404 = IsNotFound(r.msg)]
              /\ UNCHANGED <<schemaVersion, dbInfos, dbIdx, stores>>
         ELSE LET sts == updateTableMapByDBTableInfos(r.v) IN
              /\ dbTableInfosEndpointNotFound' = dbTableInfosEndpointNotFound
              /\ cyc' = [cyc EXCEPT !.reqAfterCancel = @ \/ ctxDone, !.batchReqs = @ + 1,
                     !.lastBatch = r.v,
                     !.recv = @ \cup IdsOf([i \in 1..Len(r.v) |-> r.v[i].TableInfo])]
              /\ IF Len(sts) = 0
                   THEN AfterBatch
                   ELSE /\ pc' = "BatchStore"
                        /\ stores' = sts
                        /\ UNCHANGED <<SchemaVersion, schemaVersion, tableIDBatches,
                                       batchIdx, updateSuccess, dbInfos, dbIdx>>
  /\ UNCHANGED <<TableMap, getTableIDs, ctxDone, prev, built>>

\* lines 179 and 188: one s.TableMap.Store of updateTableMapByDBTableInfos
BatchStore ==
  /\ pc = "BatchStore"
  /\ TableMap' = Store(TableMap, Head(stores).key, Head(stores).detail)
  /\ cyc' = [cyc EXCEPT !.wrote = TRUE]
  /\ IF Len(stores) = 1
       THEN AfterBatch
       ELSE /\ stores' = Tail(stores)
            /\ UNCHANGED <<SchemaVersion, pc, schemaVersion, tableIDBatches,
                           batchIdx, updateSuccess, dbInfos, dbIdx>>
  /\ UNCHANGED <<dbTableInfosEndpointNotFound, getTableIDs, ctxDone, prev, built>>

(***************************************************************************)
(* Lines 105-132: the full scan.                                           *)
(***************************************************************************)
\* the database loop goes on at position j with updateSuccess = success,
\* or ends (lines 128-131)
GoToDB(dbs, j, success) ==
  IF j > Len(dbs)
    THEN Return(VersionAfterScan(success, schemaVersion, SchemaVersion))
    ELSE /\ pc' = "DB"
         /\ dbInfos' = dbs
         /\ dbIdx' = j
         /\ updateSuccess' = success
         /\ stores' = <<>>
         /\ UNCHANGED <<SchemaVersion, schemaVersion, tableIDBatches, batchIdx>>

SchemaRequest ==
  /\ pc = "Schema"
  /\ \E res \in SendResults(DBLists) :
       LET r == request(res) IN
       IF r.err # "nil"
         THEN /\ Return(VersionAfterListingError(schemaVersion, SchemaVersion))
              /\ cyc' = [cyc EXCEPT !.reqAfterCancel = @ \/ ctxDone, !.schema = "fail"]
         ELSE /\ GoToDB(r.v, NextDB(r.v, 0), TRUE)
              /\ cyc' = [cyc EXCEPT !.reqAfterCancel = @ \/ ctxDone,
                                    !.schema = "ok", !.dbs = r.v,
                                    !.dbReq = [i \in 1..Len(r.v) |-> "none"]]
  /\ UNCHANGED <<dbTableInfosEndpointNotFound, TableMap, getTableIDs, ctxDone, prev, built>>

DBRequest ==
  /\ pc = "DB"
  /\ \E res \in SendResults(TableLists) :
       LET r == request(res) IN
       IF r.err # "nil"
         THEN /\ GoToDB(dbInfos, NextDBAfterError(dbInfos, dbIdx), FALSE)
              /\ cyc' = [cyc EXCEPT !.reqAfterCancel = @ \/ ctxDone,
                                    !.dbReq[dbIdx] = "fail"]
         ELSE LET sts == updateTableMap(dbInfos[dbIdx].Name, r.v) IN
              /\ cyc' = [cyc EXCEPT !.reqAfterCancel = @ \/ ctxDone,
                                    !.dbReq[dbIdx] = "ok",
                                    !.recv = @ \cup IdsOf(r.v)]
              /\ IF Len(sts) = 0
                   THEN GoToDB(dbInfos, NextDB(dbInfos, dbIdx), updateSuccess)
                   ELSE /\ pc' = "DBStore"
                        /\ stores' = sts
                        /\ UNCHANGED <<SchemaVersion, schemaVersion, tableIDBatches,
                                       batchIdx, updateSuccess, dbInfos, dbIdx>>
  /\ UNCHANGED <<dbTableInfosEndpointNotFound, TableMap, getTableIDs, ctxDone, prev, built>>

\* lines 149 and 158: one s.TableMap.Store of updateTableMap
DBStore ==
  /\ pc = "DBStore"
  /\ TableMap' = Store(TableMap, Head(stores).key, Head(stores).detail)
  /\ cyc' = [cyc EXCEPT !.wrote = TRUE, !.scanWrote = TRUE]
  /\ IF Len(stores) = 1
       THEN GoToDB(dbInfos, NextDB(dbInfos, dbIdx), updateSuccess)
       ELSE /\ stores' = Tail(stores)
            /\ UNCHANGED <<SchemaVersion, pc, schemaVersion, tableIDBatches,
                           batchIdx, updateSuccess, dbInfos, dbIdx>>
  /\ UNCHANGED <<dbTableInfosEndpointNotFound, getTableIDs, ctxDone, prev, built>>

\* the caller's ticker fires: updateMap is called again
Tick ==
  /\ pc = "Done"
  /\ pc' = "Idle"
  /\ cyc' = NewCycle
  /\ UNCHANGED <<SchemaVersion, dbTableInfosEndpointNotFound, TableMap, getTableIDs,
                 schemaVersion, tableIDBatches, batchIdx, updateSuccess,
                 dbInfos, dbIdx, stores, ctxDone, prev, built>>

Next ==
  \/ Tick
  \/ VersionCheck
  \/ BatchRequest
  \/ BatchStore
  \/ SchemaRequest
  \/ DBRequest
  \/ DBStore

Spec == Init /\ [][Next]_vars

\* a step of a call of updateMap that has passed the version check
CycleStep ==
  \/ BatchRequest
  \/ BatchStore
  \/ SchemaRequest
  \/ DBRequest
  \/ DBStore

\* a running call is not suspended for ever: each request returns (the
\* transport's own timeout) and the goroutine goes on to its next statement
SpecLive == Init /\ [][Next]_vars /\ WF_vars(CycleStep)

(***************************************************************************)
(* The cycles with the history of the cycle before: whether it ended       *)
(* without a commit because a request failed, and the version it fetched.  *)
(***************************************************************************)
\* the call that has returned left SchemaVersion as it was because a
\* batched or full-scan request failed
EndedOnFailure ==
  /\ cyc.ver = "changed"
  /\ SchemaVersion = cyc.sv0
  /\ \/ cyc.batchErr # "nil"
     \/ cyc.schema = "fail"
     \/ \E i \in 1..Len(cyc.dbReq) : cyc.dbReq[i] = "fail"

\* the caller's ticker fires: updateMap is called again
TickRemember ==
  /\ pc = "Done"
  /\ pc' = "Idle"
  /\ cyc' = NewCycle
  /\ prev' = IF EndedOnFailure THEN [failed |-> TRUE, fetched |-> cyc.fetched]
             ELSE NoPrev
  /\ UNCHANGED <<SchemaVersion, dbTableInfosEndpointNotFound, TableMap, getTableIDs,
                 schemaVersion, tableIDBatches, batchIdx, updateSuccess,
                 dbInfos, dbIdx, stores, ctxDone, built>>

NextRetry ==
  \/ TickRemember
  \/ VersionCheck
  \/ CycleStep

SpecRetry == Init /\ [][NextRetry]_vars

(***************************************************************************)
(* The two label builders alone, lines 134-192, on one table description.  *)
(***************************************************************************)
\* index declarations: two ids, two names, so that lists can repeat an id
IndexDecls == [ID : 1..2, Name : {"idx_a", "idx_b"}]

RECURSIVE SeqsUpTo(_, _)
SeqsUpTo(S, n) ==
  IF n = 0 THEN {<<>>}
  ELSE SeqsUpTo(S, n - 1) \cup
       {Append(q, x) : q \in {r \in SeqsUpTo(S, n - 1) : Len(r) = n - 1}, x \in S}

PartitionNames == <<"p0", "p1", "p2", "p3">>

\* table.Partition: nil, or the first k partition definitions
PartitionInfos ==
  {<<>>} \cup
  {<<[Definitions |-> [i \in 1..k |-> [ID |-> 1 + i, Name |-> PartitionNames[i]]]]>> :
     k \in 0..MaxPartitions}

BuilderTables ==
  [ID : {1}, Name : {"orders", "users"}, Indices : SeqsUpTo(IndexDecls, MaxIndexes),
   Partition : PartitionInfos]

InitBuilder ==
  /\ SchemaVersion = 0 - 1
  /\ dbTableInfosEndpointNotFound = FALSE
  /\ TableMap = [k \in {} |-> 0]
  /\ getTableIDs = FALSE
  /\ pc = "Idle"
  /\ schemaVersion = 0
  /\ tableIDBatches = <<>>
  /\ batchIdx = 0
  /\ updateSuccess = TRUE
  /\ dbInfos = <<>>
  /\ dbIdx = 0
  /\ stores = <<>>
  /\ cyc = NewCycle
  /\ ctxDone = FALSE
  /\ prev = NoPrev
  /\ \E db \in DBNames, table \in BuilderTables :
       built = [NotBuilt EXCEPT !.db = db, !.table = <<table>>]

\* the description goes through updateTableMap, as the one table of its
\* database, and through updateTableMapByDBTableInfos, as the one entry of
\* a /db-table answer
Build ==
  /\ built.table # <<>>
  /\ built.scan = <<>>
  /\ built' =
       [built EXCEPT
          !.scan = updateTableMap(built.db, built.table),
          !.batch = updateTableMapByDBTableInfos(
                      <<[DBInfo |-> [Name |-> built.db], TableInfo |-> built.table[1]]>>)]
  /\ UNCHANGED <<SchemaVersion, dbTableInfosEndpointNotFound, TableMap, getTableIDs,
                 pc, schemaVersion, tableIDBatches, batchIdx, updateSuccess,
                 dbInfos, dbIdx, stores, cyc, ctxDone, prev>>

SpecBuilder == InitBuilder /\ [][Build]_vars

(***************************************************************************)
(* The caller cancels the ctx it gave to updateMap while the call runs.    *)
(* ctx reaches line 36 only: request (lines 194-203) is given no context.  *)
(***************************************************************************)
Cancel ==
  /\ pc \in {"Batch", "BatchStore", "Schema", "DB", "DBStore"}
  /\ ~ctxDone
  /\ ctxDone' = TRUE
  /\ UNCHANGED <<SchemaVersion, dbTableInfosEndpointNotFound, TableMap, getTableIDs,
                 pc, schemaVersion, tableIDBatches, batchIdx, updateSuccess,
                 dbInfos, dbIdx, stores, cyc, prev, built>>

NextCancel ==
  \/ Next
  \/ Cancel

SpecCancel == Init /\ [][NextCancel]_vars

TypeOK ==
  /\ SchemaVersion \in (0 - 1)..MaxVersion
  /\ dbTableInfosEndpointNotFound \in BOOLEAN
  /\ pc \in {"Idle", "Done", "Batch", "BatchStore", "Schema", "DB", "DBStore"}
  /\ DOMAIN TableMap \subseteq 1..3

(***************************************************************************)
(* Properties.                                                             *)
(***************************************************************************)
\* every batched request of the cycle was issued and succeeded
BatchAllOK ==
  /\ cyc.nBatches > 0
  /\ cyc.batchReqs = cyc.nBatches
  /\ cyc.batchErr = "nil"

\* the listing and the request of every non-dropped database succeeded
ScanAllOK ==
  /\ cyc.schema = "ok"
  /\ \A i \in 1..Len(cyc.dbs) :
       cyc.dbs[i].State # StateNone => cyc.dbReq[i] = "ok"

\* C1: a finished cycle whose fetched version differs from the stored one
\* and whose identifier set is empty (none supplied, or an empty one) has
\* requested "/schema", has issued no batched request, and, when the whole
\* full scan succeeded, has stored the fetched version.
C1_EmptySetMeansFullScan ==
  (pc = "Done" /\ cyc.ver = "changed" /\ cyc.ids <= 0) =>
    /\ cyc.schema # "none"
    /\ cyc.batchReqs = 0
    /\ ScanAllOK => SchemaVersion = cyc.fetched

\* C2: during a cycle SchemaVersion keeps the value it had when the cycle
\* began; a finished cycle has changed it only to the version it fetched,
\* and only if all its batched requests succeeded or its whole full scan did.
C2_CommitOnlyOnFullSuccess ==
  /\ pc \notin {"Idle", "Done"} => SchemaVersion = cyc.sv0
  /\ (pc = "Done" /\ SchemaVersion # cyc.sv0) =>
       /\ cyc.ver = "changed"
       /\ SchemaVersion = cyc.fetched
       /\ BatchAllOK \/ ScanAllOK

\* a cycle committed after two successful batches
C2_Witness ==
  /\ pc = "Done"
  /\ SchemaVersion # cyc.sv0
  /\ cyc.batchReqs = 2
  /\ cyc.schema = "none"

\* C3: the flag never goes back to FALSE; a batched request that failed
\* with the not-found signal leaves the flag set; and a cycle that starts
\* with the flag set never consults the supplier nor issues a batched
\* request, and with a changed version goes to the "/schema" request.
C3_CapabilitySticky ==
  /\ [][dbTableInfosEndpointNotFound => dbTableInfosEndpointNotFound']_vars
  /\ [](cyc.batchErr = "NotFound" => dbTableInfosEndpointNotFound)
  /\ [](cyc.flag0 =>
          /\ cyc.batchReqs = 0
          /\ cyc.ids = 0 - 1
          /\ pc \notin {"Batch", "BatchStore"}
          /\ cyc.ver = "changed" => (pc = "Schema" \/ cyc.schema # "none"))

\* a cycle that began with the flag set, a supplier configured and a
\* changed version, and ran the full scan
C3_Witness ==
  /\ pc = "Done"
  /\ getTableIDs
  /\ cyc.flag0
  /\ cyc.ver = "changed"
  /\ cyc.schema = "ok"
  /\ SchemaVersion = cyc.fetched

\* C4: once a batched request of the cycle has failed, no further batched
\* request is issued, the cycle goes on to the "/schema" request, and when
\* it has finished SchemaVersion is the fetched version exactly if the
\* whole full scan succeeded.
C4_FallbackDecidesCommit ==
  /\ [][(cyc.batchErr # "nil" /\ pc # "Done") =>
          (cyc'.batchReqs = cyc.batchReqs /\ pc' \notin {"Batch", "BatchStore"})]_vars
  /\ [](cyc.batchErr # "nil" =>
          /\ pc = "Schema" \/ cyc.schema # "none"
          /\ pc = "Done" => (SchemaVersion = cyc.fetched <=> ScanAllOK))

\* the first of two batches was applied, the second failed, and the
\* full scan that followed failed for one database
C4_Witness ==
  /\ pc = "Done"
  /\ cyc.nBatches = 2
  /\ cyc.batchReqs = 2
  /\ cyc.batchErr = "Transport"
  /\ cyc.wrote
  /\ cyc.schema = "ok"
  /\ \E i \in 1..Len(cyc.dbReq) : cyc.dbReq[i] = "fail"
  /\ SchemaVersion = cyc.sv0

\* the first of two batches failed and the full scan that followed succeeded
C4_WitnessCommit ==
  /\ pc = "Done"
  /\ cyc.nBatches = 2
  /\ cyc.batchReqs = 1
  /\ cyc.batchErr # "nil"
  /\ ScanAllOK
  /\ SchemaVersion = cyc.fetched

\* C5: the flag changes only in a step where a batched request fails with
\* a not-found error; a transport error, a timeout or a decode error of a
\* batched request, and every failure of another request, leave it as it is.
C5_FlagOnlyOnNotFound ==
  [][dbTableInfosEndpointNotFound' # dbTableInfosEndpointNotFound =>
       (pc = "Batch" /\ cyc'.batchErr = "NotFound")]_vars

\* the value of a well-formed version text
ValueOf(t) ==
  IF t = <<"-", "1">> THEN 0 - 1
  ELSE IF t = <<"+", "1">> THEN 1
  ELSE CHOOSE v \in 0..MaxVersion : t = <<Digits[v + 1]>>

\* the response of the version check holds exactly one well-formed value
WellFormed(resp) ==
  /\ ~resp.err
  /\ Len(resp.Kvs) = 1
  /\ resp.Kvs[1] \notin MalformedTexts

\* C6: a cycle whose version check answers the stored SchemaVersion ends
\* in that same step: no batched or full-scan request, no identifier set
\* asked for, TableMap, SchemaVersion and the flag unchanged.
C6_UnchangedVersionIsNoOp ==
  [][(/\ pc = "Idle"
      /\ pc' # "Idle"
      /\ WellFormed(cyc'.resp)
      /\ ValueOf(cyc'.resp.Kvs[1]) = SchemaVersion) =>
       /\ pc' = "Done"
       /\ cyc'.batchReqs = 0
       /\ cyc'.schema = "none"
       /\ cyc'.ids = 0 - 1
       /\ ~cyc'.wrote
       /\ UNCHANGED <<TableMap, SchemaVersion, dbTableInfosEndpointNotFound>>]_vars

\* a committed version was fetched again
C6_Witness ==
  /\ pc = "Done"
  /\ cyc.ver = "unchanged"
  /\ SchemaVersion >= 0
  /\ SchemaVersion = cyc.fetched
  /\ DOMAIN TableMap # {}

\* C7: a cycle whose version check fails (an error, not exactly one value,
\* or a value that is not an integer) ends in that same step: no schema
\* request, TableMap, SchemaVersion and the flag unchanged, whatever
\* SchemaVersion holds.
C7_FailedVersionCheckSkips ==
  [][(/\ pc = "Idle"
      /\ pc' # "Idle"
      /\ ~WellFormed(cyc'.resp)) =>
       /\ pc' = "Done"
       /\ cyc'.batchReqs = 0
       /\ cyc'.schema = "none"
       /\ cyc'.ids = 0 - 1
       /\ ~cyc'.wrote
       /\ UNCHANGED <<TableMap, SchemaVersion, dbTableInfosEndpointNotFound>>]_vars

\* a value with trailing garbage was fetched after a version was committed
C7_Witness ==
  /\ pc = "Done"
  /\ cyc.ver = "failed"
  /\ cyc.resp.Kvs = <<<<"1", "x">>>>
  /\ SchemaVersion >= 0
  /\ SchemaVersion # 1

\* C8: the step in which a database's request fails writes nothing and
\* queues no store; a finished full scan has requested every non-dropped
\* database of the listing, failed ones or not; every identifier of a
\* description received is in TableMap once its stores are made; and a
\* cycle with a failed database request leaves SchemaVersion as it was.
C8_ScanContinuesAfterFailure ==
  /\ [][(pc = "DB" /\ cyc'.dbReq[dbIdx] = "fail") =>
          (TableMap' = TableMap /\ pc' \in {"DB", "Done"} /\ stores' = <<>>)]_vars
  /\ []((pc = "Done" /\ cyc.schema = "ok") =>
          \A i \in 1..Len(cyc.dbs) :
            cyc.dbs[i].State # StateNone => cyc.dbReq[i] \in {"ok", "fail"})
  /\ [](pc \notin {"BatchStore", "DBStore"} => cyc.recv \subseteq DOMAIN TableMap)
  /\ []((\E i \in 1..Len(cyc.dbReq) : cyc.dbReq[i] = "fail") =>
          SchemaVersion = cyc.sv0)

\* the first database failed, the second was requested and applied
C8_Witness ==
  /\ pc = "Done"
  /\ cyc.batchReqs = 0
  /\ cyc.dbReq = <<"fail", "ok">>
  /\ cyc.scanWrote
  /\ SchemaVersion = cyc.sv0

\* C9: no step removes a key of TableMap, and a key that a step adds or
\* whose entry it changes is a table id or partition id of a description
\* the cycle received.
C9_LookupAdditive ==
  [][/\ DOMAIN TableMap \subseteq DOMAIN TableMap'
     /\ \A k \in DOMAIN TableMap' :
          (k \notin DOMAIN TableMap \/ TableMap'[k] # TableMap[k]) => k \in cyc.recv]_vars

\* the partition entry of a table outlives the table's later description,
\* which has no partition
C9_Witness ==
  /\ {1, 2} \subseteq DOMAIN TableMap
  /\ TableMap[1].Name = "orders_v2"
  /\ TableMap[2].Name = "orders/p0"

\* ceil(n / tableInfosBatchSize)
BatchCount(n) == (n + tableInfosBatchSize - 1) \div tableInfosBatchSize

\* C10: the n > 0 identifiers are split into ceil(n/512) batches, all of
\* 512 but the last, which holds 1 to 512, every identifier in exactly one
\* batch; batch i is requested after the i-1 before it, once; and a cycle
\* whose batches all succeeded issued exactly ceil(n/512) batched requests.
C10_BatchChunking ==
  /\ (pc = "Batch" /\ batchIdx = 1) =>
       LET n == cyc.ids
           B == tableIDBatches
       IN /\ n > 0
          /\ Len(B) = BatchCount(n)
          /\ \A j \in 1..(Len(B) - 1) : Len(B[j]) = tableInfosBatchSize
          /\ Len(B[Len(B)]) \in 1..tableInfosBatchSize
          /\ (Len(B) - 1) * tableInfosBatchSize + Len(B[Len(B)]) = n
          /\ UNION {{B[j][i] : i \in 1..Len(B[j])} : j \in 1..Len(B)} = 1..n
  /\ pc = "Batch" => (batchIdx \in 1..Len(tableIDBatches) /\ cyc.batchReqs = batchIdx - 1)
  /\ pc = "BatchStore" => cyc.batchReqs = batchIdx
  /\ (pc = "Done" /\ cyc.ids > 0 /\ cyc.batchErr = "nil") =>
       (cyc.batchReqs = BatchCount(cyc.ids) /\ cyc.schema = "none")

\* more than 512 identifiers were fetched in two batches, the last partial
C10_Witness ==
  /\ pc = "Done"
  /\ cyc.ids > tableInfosBatchSize
  /\ cyc.ids % tableInfosBatchSize = Remainder
  /\ cyc.batchErr = "nil"
  /\ cyc.batchReqs = BatchCount(cyc.ids)
  /\ cyc.batchReqs >= 2

\* the table descriptions of the schema universe
Descriptions == {TOrders, TOrdersRenamed, TUsers}

\* the index names of a description: every declared index id, with the name
\* of its last declaration
IndexNames(table) ==
  [id \in {table.Indices[i].ID : i \in 1..Len(table.Indices)} |->
     LET last == CHOOSE i \in 1..Len(table.Indices) :
                   /\ table.Indices[i].ID = id
                   /\ \A j \in (i + 1)..Len(table.Indices) : table.Indices[j].ID # id
     IN table.Indices[last].Name]

\* d is, whole, the entry of identifier id for one description: the
\* table's own entry or the entry of one of its partitions
CompleteEntry(id, d) ==
  \E db \in DBNames, t \in Descriptions :
    \/ /\ id = t.ID
       /\ d = [Name |-> t.Name, DB |-> db, ID |-> t.ID, Indices |-> IndexNames(t)]
    \/ \E j \in 1..Len(PartitionDefs(t)) :
         /\ id = PartitionDefs(t)[j].ID
         /\ d = [Name |-> t.Name \o "/" \o PartitionDefs(t)[j].Name, DB |-> db,
                 ID |-> id, Indices |-> IndexNames(t)]

\* the identifiers a reader asks for
LookupIds == 1..4

\* what TableMap.Load(id) returns when the map is map
lookup(map, id) ==
  IF id \in DOMAIN map THEN [found |-> TRUE, detail |-> <<map[id]>>]
  ELSE [found |-> FALSE, detail |-> <<>>]

\* C11: at every point of a run, also between two stores of a cycle, what
\* a reader gets for an identifier is not-found or an entry whose name,
\* database, id and index names all come from one description; and a step
\* leaves the answer for an identifier as it was or replaces it by the
\* whole entry of the store the step makes, one identifier per step.
C11_NoTornEntry ==
  /\ [](\A id \in LookupIds :
          lookup(TableMap, id).found =>
            CompleteEntry(id, lookup(TableMap, id).detail[1]))
  /\ [][\A id \in LookupIds :
          \/ lookup(TableMap', id) = lookup(TableMap, id)
          \/ /\ pc \in {"BatchStore", "DBStore"}
             /\ id = Head(stores).key
             /\ lookup(TableMap', id) =
                  [found |-> TRUE, detail |-> <<Head(stores).detail>>]]_vars

\* between two stores of a full scan: identifier 1 already has the entry of
\* the renamed table, identifier 2 still the partition entry of the old
\* description, identifier 3 is still not found
C11_Witness ==
  /\ pc = "DBStore"
  /\ Len(stores) = 1
  /\ Head(stores).key = 3
  /\ lookup(TableMap, 1).found /\ lookup(TableMap, 1).detail[1].Name = "orders_v2"
  /\ lookup(TableMap, 2).found /\ lookup(TableMap, 2).detail[1].Name = "orders/p0"
  /\ ~lookup(TableMap, 3).found

\* C12: once the context of a running cycle is cancelled, every batched,
\* "/schema" and "/schema/<db>" request the cycle still makes fails, and a
\* cycle that made a request after the cancellation ends with the
\* SchemaVersion it began with.
C12_CancelAbortsCycle ==
  /\ [][(ctxDone /\ pc = "Batch") => cyc'.batchErr # "nil"]_vars
  /\ [][(ctxDone /\ pc = "Schema") => cyc'.schema = "fail"]_vars
  /\ [][(ctxDone /\ pc = "DB") => cyc'.dbReq[dbIdx] = "fail"]_vars
  /\ []((pc = "Done" /\ cyc.reqAfterCancel) => SchemaVersion = cyc.sv0)

\* C13: a database the listing reports in StateNone is never the one the
\* loop requests or stores for, its table-list request is never issued, a
\* store of the full scan writes an entry of a database that is not in
\* StateNone and whose request succeeded, and a full scan in which every
\* database not in StateNone succeeded stores the fetched version.
C13_DroppedDatabaseSkipped ==
  /\ [](pc \in {"DB", "DBStore"} => dbInfos[dbIdx].State # StateNone)
  /\ [](\A i \in 1..Len(cyc.dbs) :
          cyc.dbs[i].State = StateNone => cyc.dbReq[i] = "none")
  /\ [][pc = "DBStore" =>
          \A k \in DOMAIN TableMap' :
            (k \notin DOMAIN TableMap \/ TableMap'[k] # TableMap[k]) =>
              \E i \in 1..Len(cyc.dbs) :
                /\ cyc.dbs[i].State # StateNone
                /\ cyc.dbReq[i] = "ok"
                /\ TableMap'[k].DB = cyc.dbs[i].Name]_vars
  /\ []((/\ pc = "Done"
          /\ cyc.schema = "ok"
          /\ \A i \in 1..Len(cyc.dbs) :
               cyc.dbs[i].State # StateNone => cyc.dbReq[i] = "ok") =>
         SchemaVersion = cyc.fetched)

\* db1 was listed in StateNone and skipped, db2 was requested and applied,
\* and the cycle stored the fetched version
C13_Witness ==
  /\ pc = "Done"
  /\ Len(cyc.dbs) = 2
  /\ cyc.dbs[1].State = StateNone
  /\ cyc.dbReq = <<"none", "ok">>
  /\ cyc.scanWrote
  /\ \A k \in DOMAIN TableMap : TableMap[k].DB = "db2"
  /\ SchemaVersion = cyc.fetched
  /\ SchemaVersion # cyc.sv0

\* C14: a call of updateMap that has passed the version check goes on to
\* return, whatever its requests answer; it issues at most ceil(n/512)
\* batched requests, requests "/schema" at most once and the tables of a
\* listed database at most once; the version is fetched only at the start
\* of a call; and after a return the next call can start.
C14_CycleTerminates ==
  /\ (pc \notin {"Idle", "Done"}) ~> (pc = "Done")
  /\ [](cyc.ids > 0 => cyc.batchReqs <= BatchCount(cyc.ids))
  /\ [](cyc.ids <= 0 => cyc.batchReqs = 0)
  /\ [](pc = "Schema" => cyc.schema = "none")
  /\ [](pc = "DB" => cyc.dbReq[dbIdx] = "none")
  /\ [][pc \notin {"Idle", "Done"} =>
          /\ cyc.schema # "none" => cyc'.schema = cyc.schema
          /\ \A i \in 1..Len(cyc.dbReq) :
               cyc.dbReq[i] # "none" => cyc'.dbReq[i] = cyc.dbReq[i]]_vars
  /\ [][pc \notin {"Idle", "Done"} => cyc'.resp = cyc.resp]_vars
  /\ [](pc = "Done" => ENABLED Tick)
  /\ [](pc = "Idle" => ENABLED VersionCheck)

\* a call returned after a failed second batch and a full scan whose first
\* database failed and whose second was applied
C14_Witness ==
  /\ pc = "Done"
  /\ cyc.batchReqs = 2
  /\ cyc.batchErr # "nil"
  /\ cyc.schema = "ok"
  /\ cyc.dbReq = <<"fail", "ok">>
  /\ cyc.scanWrote

\* C15: for a table description of a database, both builders make the same
\* stores: first one under the table id, with the table's name, then one
\* under each partition id, named "<table>/<partition>"; every one of them
\* carries the database and the table's index names (index id to the name
\* declared for it).
C15_BuildersAgree ==
  built.scan # <<>> =>
    LET t == built.table[1]
        defs == PartitionDefs(t)
    IN /\ built.batch = built.scan
       /\ Len(built.scan) = 1 + Len(defs)
       /\ built.scan[1] =
            [key |-> t.ID,
             detail |-> [Name |-> t.Name, DB |-> built.db, ID |-> t.ID,
                         Indices |-> IndexNames(t)]]
       /\ \A j \in 1..Len(defs) :
            built.scan[j + 1] =
              [key |-> defs[j].ID,
               detail |-> [Name |-> t.Name \o "/" \o defs[j].Name, DB |-> built.db,
                           ID |-> defs[j].ID, Indices |-> IndexNames(t)]]

\* a table with two indexes and two partitions went through both builders
C15_Witness ==
  /\ built.scan # <<>>
  /\ Len(built.batch) = 3
  /\ built.batch[1].detail.Name = "orders"
  /\ built.batch[2].detail.Name = "orders/p0"
  /\ built.batch[3].detail.Name = "orders/p1"
  /\ built.batch[3].detail.DB = "db2"
  /\ built.batch[3].detail.Indices = [k \in {1, 2} |-> IF k = 1 THEN "idx_b" ELSE "idx_a"]

\* C16: a call that follows one that ended without a commit on a failed
\* request, and that fetches the same version again, takes the version as
\* changed; it issues batched requests if the flag was false and the
\* identifier set non-empty, and otherwise none and requests "/schema"; and
\* if none of its requests failed it has stored the fetched version.
C16_RetryAfterNoCommit ==
  (/\ prev.failed
   /\ pc = "Done"
   /\ cyc.ver \in {"changed", "unchanged"}
   /\ cyc.fetched = prev.fetched) =>
    /\ cyc.ver = "changed"
    /\ IF ~cyc.flag0 /\ cyc.ids > 0
         THEN cyc.batchReqs >= 1
         ELSE cyc.batchReqs = 0 /\ cyc.schema # "none"
    /\ (/\ cyc.batchErr = "nil"
        /\ cyc.schema # "fail"
        /\ \A i \in 1..Len(cyc.dbReq) : cyc.dbReq[i] # "fail") =>
       SchemaVersion = cyc.fetched

\* the entries a description t of database db stands for
ExpectedStores(db, t) ==
  {[key |-> t.ID,
    detail |-> [Name |-> t.Name, DB |-> db, ID |-> t.ID, Indices |-> IndexNames(t)]]} \cup
  {[key |-> PartitionDefs(t)[j].ID,
    detail |-> [Name |-> t.Name \o "/" \o PartitionDefs(t)[j].Name, DB |-> db,
                ID |-> PartitionDefs(t)[j].ID, Indices |-> IndexNames(t)]] :
     j \in 1..Len(PartitionDefs(t))}

\* every entry of a /db-table answer is in TableMap
Applied(answer) ==
  \A i \in 1..Len(answer) :
    \A e \in ExpectedStores(answer[i].DBInfo.Name, answer[i].TableInfo) :
      e.key \in DOMAIN TableMap /\ TableMap[e.key] = e.detail

\* C17: when a batch is requested the entries of the last answered batch
\* are in TableMap; a failed batched request changes nothing in TableMap;
\* the entries are still there when the full scan starts after a failed
\* batch, and after the cycle if the full scan stored nothing; whatever the
\* full scan stores, their identifiers stay in TableMap.
C17_BatchAppliedAtOnce ==
  /\ [](pc \in {"Batch", "Schema"} => Applied(cyc.lastBatch))
  /\ [][(pc = "Batch" /\ cyc'.batchErr # "nil") => TableMap' = TableMap]_vars
  /\ []((pc = "Done" /\ ~cyc.scanWrote) => Applied(cyc.lastBatch))
  /\ [](pc \in {"DB", "Done"} =>
          \A i \in 1..Len(cyc.lastBatch) :
            \A e \in ExpectedStores(cyc.lastBatch[i].DBInfo.Name,
                                    cyc.lastBatch[i].TableInfo) :
              e.key \in DOMAIN TableMap)

\* the first batch was applied, the second failed, "/schema" failed too:
\* the cycle ended without a commit and the first batch's entries are there
C17_Witness ==
  /\ pc = "Done"
  /\ cyc.batchReqs = 2
  /\ cyc.batchErr # "nil"
  /\ cyc.schema = "fail"
  /\ Len(cyc.lastBatch) = 2
  /\ Applied(cyc.lastBatch)
  /\ cyc.sv0 = 0 - 1
  /\ DOMAIN TableMap = {1, 3}
  /\ SchemaVersion = cyc.sv0

\* C18: a cycle that found the version changed, the flag false and n > 0
\* identifiers issues batched requests; if all of them succeeded the cycle
\* has stored the fetched version and has requested neither "/schema" nor
\* "/schema/<db>"; and a cycle is in its full scan after a batched request
\* only if a batched request failed.
C18_BatchSuccessCommits ==
  /\ (cyc.ver = "changed" /\ ~cyc.flag0 /\ cyc.ids > 0) =>
       /\ cyc.nBatches = BatchCount(cyc.ids)
       /\ pc = "Done" => cyc.batchReqs >= 1
  /\ (pc = "Done" /\ BatchAllOK) =>
       /\ SchemaVersion = cyc.fetched
       /\ cyc.schema = "none"
       /\ cyc.dbReq = <<>>
       /\ ~cyc.scanWrote
  /\ (cyc.batchReqs >= 1 /\ (pc \in {"Schema", "DB", "DBStore"} \/ cyc.schema # "none")) =>
       cyc.batchErr # "nil"
  /\ cyc.batchReqs >= 1 => (cyc.ver = "changed" /\ ~cyc.flag0 /\ cyc.ids > 0)

\* both batches of a cycle succeeded and were applied: the version moved
\* from 0 to 1 without a full scan
C18_Witness ==
  /\ pc = "Done"
  /\ BatchAllOK
  /\ cyc.batchReqs = 2
  /\ cyc.wrote
  /\ cyc.schema = "none"
  /\ cyc.sv0 = 0
  /\ SchemaVersion = 1

\* C19: the step in which "/schema" fails ends the call and leaves
\* TableMap as it is; a cycle whose "/schema" request failed has listed no
\* database, requested none, stored nothing in its full scan and kept the
\* SchemaVersion it began with, and the entries of its last answered batch
\* are still in TableMap.
C19_ListingFailureEndsScan ==
  /\ [][(pc = "Schema" /\ cyc'.schema = "fail") =>
          (pc' = "Done" /\ TableMap' = TableMap)]_vars
  /\ [](cyc.schema = "fail" =>
          /\ pc = "Done"
          /\ cyc.dbs = <<>>
          /\ cyc.dbReq = <<>>
          /\ ~cyc.scanWrote
          /\ SchemaVersion = cyc.sv0
          /\ Applied(cyc.lastBatch))

\* version 1 was fetched over a stored 0; the first batch stored table 1
\* and its partition, the second batch failed, then "/schema" failed
C19_Witness ==
  /\ pc = "Done"
  /\ cyc.schema = "fail"
  /\ cyc.batchReqs = 2
  /\ Len(cyc.lastBatch) = 1
  /\ cyc.wrote
  /\ {1, 2} \subseteq DOMAIN TableMap
  /\ TableMap[2].Name = "orders/p0"
  /\ cyc.fetched = 1
  /\ SchemaVersion = 0
====
